---- MODULE Spec2Model ----
(***************************************************************************)
(* ReSonata backend: the procedural composition engine of app.py           *)
(* (get_mistral_guidance, roman_to_chord, generate_melody_note,            *)
(* create_chopin_piece), its synthesizer and request handler               *)
(* (generate_simple_audio_from_score, midi_to_audio, generate_music) and   *)
(* the cache of redis_integration.py.                                      *)
(*                                                                         *)
(* Conventions.                                                            *)
(*  - A pitch is [step, octave]: step is the letter (C=0 .. B=6); inside   *)
(*    one key a letter carries one accidental, so the letter stands for    *)
(*    the pitch name. music21 compares pitches by name and octave.         *)
(*  - key_obj.pitches is music21's default pitch list of a key: the scale  *)
(*    from the tonic in octave 4 up to and including the tonic an octave   *)
(*    higher, 8 pitches.                                                   *)
(*  - innovation_level is held in hundredths (0.33 is 33).                 *)
(*  - Durations are held in thirds of a quarter note (2.0 is 6, 4/3 is 4,  *)
(*    1.0 is 3): music21 keeps quarterLength as exact fractions.           *)
(*  - Every call of the random module is a choice among its outcomes.      *)
(***************************************************************************)
EXTENDS Integers, Sequences, FiniteSets, TLC

VARIABLES
    pc,                 \* position of the operation being modelled
    key_obj,            \* the key in use
    innovation_level,   \* request parameter, in hundredths
    roman_numeral,      \* roman_to_chord: its argument
    chord_pitches,      \* roman_to_chord: its result
    harm_draw,          \* roman_to_chord: the outcomes of its random() calls
    prev_note,          \* generate_melody_note: its argument prev_note
    contour,            \* generate_melody_note: its argument contour
    melody_note,        \* the note the last generate_melody_note call returned
    walk,               \* history: current_idx, step, new_idx of that call
    prev_melody_note,   \* the caller's carried note (None before the first call)
    calls,              \* number of generate_melody_note calls made so far
    guidance,           \* create_chopin_piece: the plan get_mistral_guidance gave
    section_idx,        \* 1-based position in sections.items()
    measure_idx,        \* measure_idx of the section being rendered
    current_measure,    \* current_measure
    left_hand,          \* notesAndRests of the left hand part
    right_hand,         \* notesAndRests of the right hand part
    piano_part,         \* the events of piano_part
    draws,              \* the random outcomes of the measures rendered so far
    rendered,           \* history: <<section, measure_idx>> of each rendered measure
    error,              \* the exception create_chopin_piece raised, if any
    chord_idx,          \* chord_idx of the measure being rendered
    notes_in_measure,   \* notes_in_measure
    note_idx,           \* note_idx
    harmony_note,       \* the harmony note appended after the last melody note
    pad_idx,            \* iterations of the padding loop made so far
    mood,               \* get_mistral_guidance: its argument mood
    redis_available,    \* REDIS_AVAILABLE
    cache,              \* the mistral:response:* entries of the Redis store
    response,           \* what the advisory service did in the last call
    returned,           \* the value the last get_mistral_guidance call returned
    plan_source,        \* which return statement returned it
    numpy_available,    \* whether numpy and scipy.io.wavfile can be imported
    score,              \* generate_music: the score being rendered
    synth_call,         \* 1: generate_music's synthesizer call, 2: midi_to_audio's
    tempo_bpm,          \* synthesizer: tempo_bpm
    total_samples,      \* synthesizer: total_samples
    audio,              \* synthesizer: the buffer, in hundredths of full scale
    audio_int16,        \* synthesizer: the quantized samples
    event_idx,          \* synthesizer: 1-based position in score.flatten().notes
    span,               \* synthesizer: start_sample, end_sample of the last element
    clips,              \* history: how many times np.clip has run in this call
    path_result,        \* what each rendering path returned
    audio_available,    \* generate_music: audio_available
    http,               \* generate_music: the response sent
    requests,           \* rate_limit: the call each worker is making
    rate_store,         \* the rate_limit:<key> entry of the Redis store
    granted,            \* history: calls of this counter that returned True
    expire_set_by       \* history: the counts whose calls set the expiry

harmVars == <<roman_numeral, chord_pitches, harm_draw>>
melVars == <<prev_note, contour, melody_note, calls>>

compVars == <<guidance, section_idx, measure_idx, current_measure, left_hand,
              right_hand, piano_part, draws, rendered, error>>

rateVars == <<requests, rate_store, granted, expire_set_by>>

\* the locals of the measure loop and of the padding loop
voiceVars == <<chord_idx, notes_in_measure, note_idx, harmony_note, pad_idx>>

guidVars == <<mood, redis_available, cache, response, returned, plan_source>>

synthVars == <<tempo_bpm, total_samples, audio, audio_int16, event_idx, span, clips>>

audioVars == <<numpy_available, score, synth_call, synthVars, path_result,
               audio_available, http>>

vars == <<pc, key_obj, innovation_level, harmVars, melVars, prev_melody_note, compVars,
          guidVars, audioVars, voiceVars, walk, rateVars>>

----------------------------------------------------------------------------
(* Keys and scales                                                         *)

\* number of pitches of key_obj.pitches (tonic .. tonic an octave above)
ScaleLen == 8

\* octave music21 gives the tonic of a key built from a name without octave
TonicOctave == 4

\* letters of an octave; a pitch's octave number changes at C
Letters == 7

CMinor == [tonic |-> 0, mode |-> "minor"]
DMinor == [tonic |-> 1, mode |-> "minor"]
EMinor == [tonic |-> 2, mode |-> "minor"]

Keys == {CMinor, DMinor, EMinor}

\* the i-th (0-based) pitch of key_obj.pitches
ScalePitch(k, i) ==
    [step   |-> (k.tonic + i) % Letters,
     octave |-> TonicOctave + ((k.tonic + i) \div Letters)]

\* key_obj.pitches
KeyPitches(k) == [i \in 1..ScaleLen |-> ScalePitch(k, i - 1)]

\* the accidental a letter carries in the scale of the key: -1 a flat, 1 a
\* sharp (c minor: E-, A-, B-; d minor: B-; e minor: F#)
Accidental(k, step) ==
    IF k = CMinor /\ step \in {2, 5, 6} THEN -1
    ELSE IF k = DMinor /\ step = 6 THEN -1
    ELSE IF k = EMinor /\ step = 3 THEN 1
    ELSE 0

\* pitch.name of a pitch taken from key_obj.pitches
PitchName(k, p) == [step |-> p.step, alter |-> Accidental(k, p.step)]

\* what reading past the end of a list gives: no pitch at all
NoPitch == [step |-> -1, octave |-> -1]

\* scale[i] for a 0-based index i
ScaleAt(scale, i) ==
    IF i >= 0 /\ i < Len(scale) THEN scale[i + 1] ELSE NoPitch

----------------------------------------------------------------------------
(* roman_to_chord                                                          *)

\* chord_map
ChordMap ==
    [i   |-> <<0, 2, 4>>,
     iv  |-> <<3, 5, 7>>,
     V   |-> <<4, 6, 8>>,
     VI  |-> <<5, 7, 9>>,
     VII |-> <<6, 8, 10>>]

KnownSymbols == DOMAIN ChordMap

\* the symbols the model feeds in: the table's and one that is not in it
Symbols == KnownSymbols \cup {"bVII"}

\* outcomes of the two random() calls of roman_to_chord:
\* extend is random() < 0.3, seventh is random() < 0.5
HarmonyDraws == [extend : BOOLEAN, seventh : BOOLEAN]

\* threshold of the extension, in hundredths
ExtensionInnovation == 50

\* the degree modulus of roman_to_chord
DegreeMod == 7

\* the two extension intervals
SeventhInterval == 6
NinthInterval == 8

\* the chord with its degrees not reduced mod 7
BaseChordNoMod(scale, intervals) ==
    [j \in 1..Len(intervals) |-> ScaleAt(scale, intervals[j])]

\* [scale[i % 7] for i in intervals]
BaseChord(scale, intervals) ==
    [j \in 1..Len(intervals) |-> ScaleAt(scale, intervals[j] % DegreeMod)]

\* roman_to_chord(roman_numeral, key_obj, innovation_level) under the draws d
RomanToChord(roman, k, innov, d) ==
    LET scale == KeyPitches(k) IN
    IF roman \notin KnownSymbols
    THEN <<ScaleAt(scale, 0), ScaleAt(scale, 2), ScaleAt(scale, 4)>>
    ELSE LET intervals == ChordMap[roman]
             base_chord == BaseChord(scale, intervals)
         IN  IF innov > ExtensionInnovation /\ d.extend
             THEN IF d.seventh
                  THEN Append(base_chord,
                         ScaleAt(scale, (intervals[1] + SeventhInterval) % DegreeMod))
                  ELSE Append(base_chord,
                         ScaleAt(scale, (intervals[1] + NinthInterval) % DegreeMod))
             ELSE base_chord

\* the innovation levels the model feeds in, around the code's thresholds
Innovations == {20, 50, 80}

----------------------------------------------------------------------------
(* generate_melody_note                                                    *)

\* None
NoNote == [step |-> -2, octave |-> -2]

Contours == {"ascending", "descending", "arch"}

\* innovation thresholds of the step size, in hundredths
LowInnovation == 33
MediumInnovation == 66

\* random.randint(2, 4)
StartLow == 2
StartHigh == 4

\* octave of a first note, and the piano range the octave is clamped to
DefaultOctave == 4
MinOctave == 3
MaxOctave == 6

\* random.choice([1, 2]) / [1, 2, 3] / [1, 2, 3, 4]
StepChoices(innov) ==
    IF innov < LowInnovation THEN {1, 2}
    ELSE IF innov < MediumInnovation THEN {1, 2, 3}
    ELSE {1, 2, 3, 4}

\* scale.index(p): the first 0-based index holding p, -1 when list.index raises
ScaleIndex(scale, p) ==
    IF \E i \in 1..Len(scale) : scale[i] = p
    THEN (CHOOSE i \in 1..Len(scale) :
            /\ scale[i] = p
            /\ \A j \in 1..(i - 1) : scale[j] # p) - 1
    ELSE -1

\* whether the call reads random.randint(2, 4): no previous note, or its pitch
\* is not in the scale
NeedsStart(prev, scale) == prev = NoNote \/ ScaleIndex(scale, prev) < 0

\* random.choice([-1, 1]), made for an arch contour only (0: not made)
DirChoices(ctr) == IF ctr \in {"ascending", "descending"} THEN {0} ELSE {-1, 1}

\* random.randint(2, 4), made when the index is not found (0: not made)
StartChoices(prev, scale) ==
    IF NeedsStart(prev, scale) THEN StartLow..StartHigh ELSE {0}

\* random() < p followed, when it is, by random.choice([-1, 0, 1])
NudgeChoices == {[on |-> FALSE, by |-> 0]} \cup [on : {TRUE}, by : {-1, 0, 1}]

\* outcomes of the random calls that decide the scale index of one call:
\*   dir      the direction of an arch contour
\*   start    the starting index
\*   mag      random.choice of the step size
\*   jitter   random() < 0.2 and its random.choice([-1, 0, 1])
\* (the octave is decided by one more nudge: random() < 0.3 and its choice)
IndexDraws(prev, scale, ctr, innov) ==
    [dir : DirChoices(ctr), start : StartChoices(prev, scale),
     mag : StepChoices(innov), jitter : NudgeChoices]

Direction(ctr, d) ==
    IF ctr = "ascending" THEN 1
    ELSE IF ctr = "descending" THEN -1
    ELSE d.dir

\* step = direction * random.choice(...)
Step(ctr, d) == Direction(ctr, d) * d.mag

\* current_idx
CurrentIdx(prev, scale, d) ==
    IF NeedsStart(prev, scale) THEN d.start ELSE ScaleIndex(scale, prev)

\* new_idx, after the step and the optional jitter (Python's % is never negative)
NewIdx(prev, scale, ctr, d) ==
    LET stepped == (CurrentIdx(prev, scale, d) + Step(ctr, d)) % Len(scale)
    IN  IF d.jitter.on THEN (stepped + d.jitter.by) % Len(scale) ELSE stepped

Max(a, b) == IF a > b THEN a ELSE b
Min(a, b) == IF a < b THEN a ELSE b

\* the octave before the clamp, under the outcome of the octave nudge
ShiftedOctave(prev, shift) ==
    LET octave == IF prev = NoNote THEN DefaultOctave ELSE prev.octave
    IN  IF shift.on THEN octave + shift.by ELSE octave

\* the octave left as shifted
NewOctaveNoClamp(prev, shift) == ShiftedOctave(prev, shift)

\* octave = max(3, min(6, octave))
NewOctave(prev, shift) == Max(MinOctave, Min(MaxOctave, ShiftedOctave(prev, shift)))

\* current_idx, step and new_idx of a call
WalkOf(prev, scale, ctr, d) ==
    [current_idx |-> CurrentIdx(prev, scale, d), step |-> Step(ctr, d),
     new_idx |-> NewIdx(prev, scale, ctr, d)]

\* the history of a call that has not been made
NoWalk == [current_idx |-> -1, step |-> 0, new_idx |-> -1]

\* generate_melody_note(prev_note, key_obj, contour, innovation_level): every
\* note.Note(new_pitch.name + str(octave)) a call can return. The name and the
\* octave come from separate random calls, so every pairing can happen.
MelodyNotes(prev, k, ctr, innov) ==
    LET scale == KeyPitches(k)
        names == {ScaleAt(scale, NewIdx(prev, scale, ctr, d)).step :
                     d \in IndexDraws(prev, scale, ctr, innov)}
        octaves == {NewOctave(prev, shift) : shift \in NudgeChoices}
    IN  [step : names, octave : octaves]

----------------------------------------------------------------------------
(* create_chopin_piece: plans                                              *)

\* dict.get(k, default)
Get(d, k, default) == IF k \in DOMAIN d THEN d[k] ELSE default

\* the plan of the fallback branch of get_mistral_guidance; its sections are
\* also the default of guidance.get("sections", ...)
FallbackSections ==
    << [name |-> "intro",
        data |-> [chords |-> <<"i", "iv", "V", "i">>, measures |-> 4,
                  melodic_contour |-> "descending"]],
       [name |-> "main_theme",
        data |-> [chords |-> <<"i", "VI", "iv", "V", "i">>, measures |-> 8,
                  melodic_contour |-> "arch"]],
       [name |-> "variation",
        data |-> [chords |-> <<"i", "iv", "VII", "V", "i">>, measures |-> 8,
                  melodic_contour |-> "ascending"]],
       [name |-> "resolution",
        data |-> [chords |-> <<"i", "V", "i">>, measures |-> 4,
                  melodic_contour |-> "descending"]] >>

FallbackPlan == [key |-> "D minor", tempo |-> 70, sections |-> FallbackSections]

\* one section of 3 measures, one chord per measure
RoundTripPlan ==
    [key |-> "C minor", tempo |-> 80,
     sections |-> << [name |-> "main",
                      data |-> [chords |-> <<"i", "V", "i">>, measures |-> 3,
                                melodic_contour |-> "descending"]] >>]

\* no section at all
EmptyPlan == [key |-> "D minor", tempo |-> 70, sections |-> <<>>]

\* more chords than measures, then a section that names no chords, no contour
ShortPlan ==
    [key |-> "E minor",
     sections |-> << [name |-> "intro",
                      data |-> [chords |-> <<"i", "iv", "VI", "VII">>, measures |-> 1,
                                melodic_contour |-> "arch"]],
                     [name |-> "coda", data |-> [measures |-> 1]] >>]

\* a section whose chord list is there and empty, after one that renders
EmptyChordsPlan ==
    [key |-> "D minor", tempo |-> 70,
     sections |-> << [name |-> "intro",
                      data |-> [chords |-> <<"i">>, measures |-> 1,
                                melodic_contour |-> "ascending"]],
                     [name |-> "main",
                      data |-> [chords |-> <<>>, measures |-> 2,
                                melodic_contour |-> "descending"]] >>]

\* exactly the target number of measures; a key name music21 cannot resolve,
\* a symbol that is not in chord_map, a section without a measure count
TwelvePlan ==
    [key |-> "H minor", tempo |-> 60,
     sections |-> << [name |-> "intro",
                      data |-> [chords |-> <<"i", "bVII", "V">>, measures |-> 8,
                                melodic_contour |-> "ascending"]],
                     [name |-> "coda",
                      data |-> [chords |-> <<"i", "V", "i">>,
                                melodic_contour |-> "descending"]] >>]

\* a section of no measures
ZeroMeasuresPlan ==
    [key |-> "C minor", tempo |-> 80,
     sections |-> << [name |-> "main",
                      data |-> [chords |-> <<"i", "V">>, measures |-> 0,
                                melodic_contour |-> "arch"]] >>]

\* a key name music21 cannot resolve; fewer chords than measures
UnknownKeyPlan ==
    [key |-> "H minor", tempo |-> 70,
     sections |-> << [name |-> "main",
                      data |-> [chords |-> <<"i", "V">>, measures |-> 3,
                                melodic_contour |-> "ascending"]] >>]

Plans ==
    {RoundTripPlan, EmptyPlan, ShortPlan, EmptyChordsPlan, TwelvePlan, ZeroMeasuresPlan}

\* the key names key.Key resolves, by the tonic and mode they name
KeyTable ==
    ("C minor" :> CMinor) @@ ("D minor" :> DMinor) @@ ("E minor" :> EMinor)

\* a fallback to c minor
ParseKeyCMinor(g) ==
    LET key_name == Get(g, "key", "D minor")
    IN  IF key_name \in DOMAIN KeyTable THEN KeyTable[key_name] ELSE CMinor

\* lines 235-258: the key named by the plan, d minor when key.Key raises
ParseKey(g) ==
    LET key_name == Get(g, "key", "D minor")
    IN  IF key_name \in DOMAIN KeyTable THEN KeyTable[key_name] ELSE DMinor

\* defaults of the section fields
DefaultChords == <<"i", "V", "i">>
DefaultMeasures == 4
DefaultContour == "arch"

SectionsOf(g) == Get(g, "sections", FallbackSections)
SectionChords(sd) == Get(sd, "chords", DefaultChords)
\* the measure count read under the field name "measure"
SectionMeasuresTypo(sd) == Get(sd, "measure", DefaultMeasures)
SectionMeasures(sd) == Get(sd, "measures", DefaultMeasures)
SectionContour(sd) == Get(sd, "melodic_contour", DefaultContour)

----------------------------------------------------------------------------
(* create_chopin_piece: events                                             *)
(* An event is a Note, a Chord or a Rest of a part: its kind, the number   *)
(* of pitches it holds and its duration. The pitches themselves are held   *)
(* only for the melody's last note, prev_melody_note.                      *)

\* thirds of a quarter note per beat
TicksPerBeat == 3

\* meter.TimeSignature("4/4")
BeatsPerMeasure == 4

\* quarterLength 2.0
HalfMeasure == 2 * TicksPerBeat

\* 4.0 / notes_in_measure
QuarterPerNote(n) == (BeatsPerMeasure * TicksPerBeat) \div n

NoteEvent(dur) == [kind |-> "note", np |-> 1, dur |-> dur]
ChordEvent(np, dur) == [kind |-> "chord", np |-> np, dur |-> dur]
RestEvent(dur) == [kind |-> "rest", np |-> 0, dur |-> dur]

\* the constant sequence of n copies of e
RECURSIVE Repeat(_, _)
Repeat(e, n) == IF n <= 0 THEN <<>> ELSE <<e>> \o Repeat(e, n - 1)

\* total duration of a part, in ticks
RECURSIVE Ticks(_)
Ticks(events) == IF events = <<>> THEN 0 ELSE Head(events).dur + Ticks(Tail(events))

\* The notes of a piece numbered 1..28 by name and octave, None numbered 29:
\* the numbering under which generate_melody_note is tabulated.
OctaveSpan == MaxOctave - MinOctave + 1
NoneCode == Letters * OctaveSpan + 1

NoteCode(p) ==
    IF p = NoNote THEN NoneCode
    ELSE p.step * OctaveSpan + (p.octave - MinOctave) + 1

CodeNote(c) ==
    IF c = NoneCode THEN NoNote
    ELSE [step |-> (c - 1) \div OctaveSpan, octave |-> MinOctave + ((c - 1) % OctaveSpan)]

\* generate_melody_note tabulated over the notes a piece can pass to it
MelodyTable ==
    [k \in Keys |-> [ctr \in Contours |-> [innov \in Innovations |->
        [c \in 1..NoneCode |->
            {NoteCode(q) : q \in MelodyNotes(CodeNote(c), k, ctr, innov)}]]]]

\* the notes n chained calls can end on, the first receiving a note of from
RECURSIVE ChainCodes(_, _, _)
ChainCodes(from, table, n) ==
    IF n = 0 THEN from
    ELSE ChainCodes({x \in 1..NoneCode : \E c \in from : x \in table[c]}, table, n - 1)

\* the notes of n chained generate_melody_note calls: the notes the last of
\* them can return when the first receives prev
MelodyChain(prev, k, ctr, innov, n) ==
    {CodeNote(c) : c \in ChainCodes({NoteCode(prev)}, MelodyTable[k][ctr][innov], n)}

\* how many measures draw their random outcomes freely; a later measure
\* repeats the outcomes of the measure that many measures before it
FreeMeasures == 1

\* random outcomes of one measure:
\*   block    random() < 0.5, a block chord on beat 3 (else a rest)
\*   notes    random.choice([2, 3, 4])
\*   harmony  how many of the melody notes drew random() < 0.3 and so are
\*            followed by a harmony note (the notes of a measure are alike)
MeasureDraws ==
    UNION {[block : BOOLEAN, notes : {n}, harmony : 0..n] : n \in {2, 3, 4}}

DrawsAt(cm, drawn) ==
    IF cm < FreeMeasures THEN MeasureDraws ELSE {drawn[(cm % FreeMeasures) + 1]}

\* chord_idx of a measure (-1: Python's index of the last element)
ChordIdx(m_idx, len, measures) ==
    LET idx == (m_idx * len) \div measures
    IN  IF idx >= len THEN len - 1 ELSE idx

\* a left hand that holds the bass without appending a rest
LeftHandBassOnly(cp, d) ==
    IF d.block
    THEN << NoteEvent(HalfMeasure),
            ChordEvent(Len(SubSeq(cp, 1, Min(3, Len(cp)))), HalfMeasure) >>
    ELSE << NoteEvent(HalfMeasure) >>

\* lines 311-326: the two left hand events of a measure
LeftHandOfMeasure(cp, d) ==
    << NoteEvent(HalfMeasure),
       IF d.block THEN ChordEvent(Len(SubSeq(cp, 1, Min(3, Len(cp)))), HalfMeasure)
       ELSE RestEvent(HalfMeasure) >>

\* lines 328-352: the right hand events of a measure, melody and harmony notes
RightHandOfMeasure(cp, d) ==
    Repeat(NoteEvent(QuarterPerNote(d.notes)),
           d.notes + (IF Len(cp) > 1 THEN d.harmony ELSE 0))

----------------------------------------------------------------------------
(* create_chopin_piece: merging the hands, padding                         *)

\* the notes an item adds to notes_to_add
Contribution(item) == IF item.kind \in {"note", "chord"} THEN item.np ELSE 0

\* a merge whose chords take the duration of the right hand's event
MergedAtRightDuration(lh, rh, i) ==
    LET from_lh == IF i <= Len(lh) THEN Contribution(lh[i]) ELSE 0
        from_rh == IF i <= Len(rh) THEN Contribution(rh[i]) ELSE 0
        total == from_lh + from_rh
    IN  IF total > 1
        THEN << ChordEvent(total, IF i <= Len(rh) THEN rh[i].dur ELSE lh[i].dur) >>
        ELSE IF total = 1
        THEN << NoteEvent(IF from_lh = 1 THEN lh[i].dur ELSE rh[i].dur) >>
        ELSE <<>>

\* the event index i (1-based) of the merge appends, as a sequence of 0 or 1
MergedAt(lh, rh, i) ==
    LET from_lh == IF i <= Len(lh) THEN Contribution(lh[i]) ELSE 0
        from_rh == IF i <= Len(rh) THEN Contribution(rh[i]) ELSE 0
        total == from_lh + from_rh
    IN  IF total > 1
        THEN << ChordEvent(total, IF i <= Len(lh) THEN lh[i].dur ELSE rh[i].dur) >>
        ELSE IF total = 1
        THEN << NoteEvent(IF from_lh = 1 THEN lh[i].dur ELSE rh[i].dur) >>
        ELSE <<>>

RECURSIVE MergeFrom(_, _, _)
MergeFrom(lh, rh, i) ==
    IF i > Max(Len(lh), Len(rh)) THEN <<>>
    ELSE MergedAt(lh, rh, i) \o MergeFrom(lh, rh, i + 1)

\* lines 363-398
MergeHands(lh, rh) == MergeFrom(lh, rh, 1)

\* target_measures
TargetMeasures == 12

\* one padding measure fewer
PadCountShort(total) ==
    IF total < TargetMeasures THEN TargetMeasures - total - 1 ELSE 0

\* a padding measure even when the target is met
PadCountAlways(total) == Max(1, TargetMeasures - total)

\* range(target_measures - total_measures), empty unless total < target
PadCount(total) ==
    IF total < TargetMeasures THEN TargetMeasures - total ELSE 0

\* the bass note and the melody note of each added measure
RECURSIVE Padding(_)
Padding(n) ==
    IF n <= 0 THEN <<>>
    ELSE <<NoteEvent(HalfMeasure), NoteEvent(HalfMeasure)>> \o Padding(n - 1)

----------------------------------------------------------------------------
(* get_mistral_guidance and the response cache of redis_integration.py     *)
(* A JSON value is [type, value]: an object holds a record, an array a     *)
(* sequence, null nothing.                                                 *)

JsonObject(fields) == [type |-> "object", value |-> fields]
JsonArray(items) == [type |-> "array", value |-> items]
JsonNull == [type |-> "null", value |-> <<>>]

\* None, and the value of a variable no call has set
NoValue == [type |-> "none", value |-> <<>>]

\* the JSON documents the advisory service answers with: two plans, a plan
\* without a key, a plan without sections, an array of names, null
Documents ==
    {JsonObject(RoundTripPlan), JsonObject(ShortPlan),
     JsonObject([tempo |-> 70, sections |-> FallbackSections]),
     JsonObject([key |-> "D minor", tempo |-> 70]),
     JsonArray(<<"key", "sections">>),
     JsonNull}

\* how the message wraps its text: as it is, or in a ```json fence
Fences == {"none", "json"}

\* the message contents: a document, or text that is no JSON at all
Contents ==
    [fence : Fences, well_formed : {TRUE}, doc : Documents]
        \cup [fence : Fences, well_formed : {FALSE}, doc : {JsonNull}]

\* models_to_try
ModelsToTry == <<"mistral-medium-latest", "mistral-medium", "mistral-large-latest">>

NoContent == [fence |-> "none", well_formed |-> FALSE, doc |-> JsonNull]

\* what the service does in one call: answered is the position of the first
\* model whose chat.complete returns (0: every model raised)
Responses ==
    {[answered |-> 0, content |-> NoContent]}
        \cup [answered : 1..Len(ModelsToTry), content : Contents]

NoResponse == [answered |-> -1, content |-> NoContent]

\* lines 97-104: the fence is stripped, json.loads raises on text that is no JSON
JsonLoads(content) ==
    IF content.well_formed THEN [raised |-> FALSE, value |-> content.doc]
    ELSE [raised |-> TRUE, value |-> NoValue]

\* Python's name in parsed: a key of a dict, an element of a list, a
\* TypeError on None
Contains(parsed, name) ==
    IF parsed.type = "object" THEN [raised |-> FALSE, value |-> name \in DOMAIN parsed.value]
    ELSE IF parsed.type = "array"
    THEN [raised |-> FALSE,
          value |-> \E i \in 1..Len(parsed.value) : parsed.value[i] = name]
    ELSE [raised |-> TRUE, value |-> FALSE]

\* line 106: "key" in parsed and "sections" in parsed, FALSE when it raises
Validated(parsed) ==
    /\ ~Contains(parsed, "key").raised
    /\ Contains(parsed, "key").value
    /\ Contains(parsed, "sections").value

\* truth value of a Python object
Truthy(v) ==
    IF v.type = "object" THEN DOMAIN v.value # {}
    ELSE IF v.type = "array" THEN Len(v.value) > 0
    ELSE FALSE

Moods == {"melancholic", "hopeful"}

\* the cache keys mistral:response:{mood}:{innovation_level}
CacheKeys == Moods \X Innovations

\* get_cached_mistral_response; redis_ok: the Redis command does not raise.
\* The entry is json.dumps of a value json.loads gave, which json.loads
\* gives back.
GetCachedMistralResponse(store, available, redis_ok, m, innov) ==
    IF ~available THEN NoValue
    ELSE IF ~redis_ok THEN NoValue
    ELSE store[<<m, innov>>]

\* cache_mistral_response: the store after the call
CacheMistralResponse(store, available, redis_ok, m, innov, response_data) ==
    IF available /\ redis_ok
    THEN [store EXCEPT ![<<m, innov>>] = response_data]
    ELSE store

\* lines 78-116: the value the try block returns, NoValue when it raises
Advised(r) ==
    IF r.answered = 0 THEN NoValue
    ELSE LET loaded == JsonLoads(r.content)
         IN  IF loaded.raised THEN NoValue
             ELSE IF Validated(loaded.value) THEN loaded.value
             ELSE NoValue

----------------------------------------------------------------------------
(* generate_simple_audio_from_score, midi_to_audio, generate_music          *)
(* Offsets and durations are in ticks, sample values in hundredths of full *)
(* scale. A score is its tempo mark, its notes and chords and its length.  *)

\* sample_rate, scaled down: samples per second
SampleRate == 7

\* tempo_bpm when the score has no MetronomeMark with a number
DefaultTempo == 70

\* seconds per beat are 60.0 / tempo_bpm
SecondsPerMinute == 60

\* 1.0 as a sample value, and the gains of a note and of each pitch of a chord
FullScale == 100
NoteGain == 30
ChordGain == 15

\* largest value of a signed 16-bit sample times the buffer
Int16Scale == 32767

\* width of a 16-bit sample
Int16Bits == 16

\* how many notes and chords a score holds at most
MaxEvents == 2

\* the notes and chords of the scores fed in: a Note has one pitch, a Chord
\* here 7 (its gains add up past full scale)
Elements ==
    [kind : {"note"}, offset : {0, 3}, dur : {3, 6}, pitches : {1}]
        \cup [kind : {"chord"}, offset : {0, 3}, dur : {3, 6}, pitches : {7}]

\* sequences of at most n elements
RECURSIVE ElementSeqs(_)
ElementSeqs(n) ==
    IF n = 0 THEN {<<>>}
    ELSE LET shorter == ElementSeqs(n - 1)
         IN  shorter \cup {Append(q, e) : q \in shorter, e \in Elements}

\* where the last element ends
RECURSIVE HighestTime(_)
HighestTime(events) ==
    IF events = <<>> THEN 0
    ELSE Max(Head(events).offset + Head(events).dur, HighestTime(Tail(events)))

\* the scores: tempo 0 stands for no MetronomeMark; a score may end in a rest
Scores ==
    {[tempo |-> t, events |-> ev, ql |-> HighestTime(ev) + rest] :
        t \in {0, 60, 80}, ev \in ElementSeqs(MaxEvents), rest \in {0, 3}}

NoScore == [tempo |-> 0, events |-> <<>>, ql |-> 0]

\* lines 432-436
TempoOf(sc) == IF sc.tempo # 0 THEN sc.tempo ELSE DefaultTempo

\* whether 60.0 / tempo is an exact binary fraction
ExactFactor(tempo) == \E k \in 0..8 : (SecondsPerMinute * (2 ^ k)) % tempo = 0

\* int(ticks / 3 * (60.0 / tempo) * sample_rate): the floor of the exact value;
\* when 60.0 / tempo is rounded and the exact value is a whole number n, the
\* floating-point product may fall just below n and int() then gives n - 1
SampleCounts(ticks, tempo) ==
    LET num == ticks * SecondsPerMinute * SampleRate
        den == TicksPerBeat * tempo
    IN  {num \div den} \cup
        (IF num > 0 /\ num % den = 0 /\ ~ExactFactor(tempo) THEN {(num \div den) - 1}
         ELSE {})

\* line 438
TotalSampleCounts(sc, tempo) == SampleCounts(sc.ql, tempo)

\* sin(2 pi f t) * envelope lies in [-1, 1]; the model takes it at its
\* extremes: all crests, all troughs, or crest and trough in turn
WaveShapes == {"crest", "trough", "alternating"}

\* the gain of an element: 0.3 for a Note, 0.15 for each pitch of a Chord
Gain(e) == IF e.kind = "note" THEN NoteGain ELSE ChordGain * e.pitches

\* wave[k] for a 0-based k
WaveAt(shape, k, gain) ==
    IF shape = "crest" THEN gain
    ELSE IF shape = "trough" THEN 0 - gain
    ELSE IF k % 2 = 0 THEN gain ELSE 0 - gain

\* end_idx without the min
EndIdxNoMin(start_sample, num_samples, total) == start_sample + num_samples

\* end_idx = min(start_sample + num_samples, total_samples)
EndIdx(start_sample, num_samples, total) == Min(start_sample + num_samples, total)

\* audio[start_sample:end_idx] += wave[:end_idx - start_sample]; a slice that
\* ends past the buffer is shorter than the wave, and numpy raises
AddWave(buf, start_sample, end_idx, shape, gain) ==
    IF end_idx > Len(buf) THEN [raised |-> TRUE, value |-> buf]
    ELSE [raised |-> FALSE,
          value |-> [i \in 1..Len(buf) |->
                        IF i > start_sample /\ i <= end_idx
                        THEN buf[i] + WaveAt(shape, i - start_sample - 1, gain)
                        ELSE buf[i]]]

\* the buffer left as it is
ClipNone(v) == v

\* np.clip(audio, -1.0, 1.0), for one sample
Clip(v) == Max(0 - FullScale, Min(FullScale, v))

\* astype(np.int16) of a float: the fraction is dropped, the integer wraps
\* to 16 bits
ToInt16(numerator, denominator) ==
    LET magnitude == (IF numerator < 0 THEN 0 - numerator ELSE numerator) \div denominator
        whole == IF numerator < 0 THEN 0 - magnitude ELSE magnitude
        half == 2 ^ (Int16Bits - 1)
    IN  ((whole + half) % (2 * half)) - half

\* (audio * 32767).astype(np.int16), for one sample
Quantize(v) == ToInt16(v * Int16Scale, FullScale)

NoSpan == [start |-> 0, end |-> 0]

NoPaths == [p \in 1..2 |-> "none"]

NoHttp == [status |-> 0, success |-> FALSE, audioAvailable |-> FALSE, audioPath |-> FALSE]

----------------------------------------------------------------------------
(* rate_limit of redis_integration.py, as generate_music calls it          *)
(* Every request of one client address uses one key, so the store holds    *)
(* one counter: its count (0: the key does not exist) and whether it has   *)
(* an expiry. A command of the store may raise, having taken effect or not.*)

\* concurrent requests of the client
Workers == 2

\* max_requests, scaled down from the 20 of generate_music
MaxRequests == 2

\* counts from here on are held as this one: all of them exceed max_requests
MaxCount == 4

NoEntry == [count |-> 0, has_expiry |-> FALSE]

\* a worker between two requests
NoRequest == [at |-> "idle", current |-> 0, path |-> "none", result |-> "none",
              stale |-> FALSE]

\* redis_client.incr(rate_key): the new count
Incremented(entry) == Min(entry.count + 1, MaxCount)

\* current <= max_requests
WithinLimit(current) == current <= MaxRequests

\* lines 565-569 of app.py: 429 when rate_limit returns False
ResultOf(allowed) == IF allowed THEN "proceeds" ELSE "rejected"

----------------------------------------------------------------------------
(* Specification of create_chopin_piece                                    *)

NoKey == [tonic |-> -1, mode |-> "none"]

\* the values the variables of an operation hold while it is not modelled
MelodyIdle ==
    /\ prev_note = NoNote
    /\ contour = "arch"
    /\ melody_note = NoNote
    /\ walk = NoWalk
    /\ calls = 0
    /\ prev_melody_note = NoNote

RateIdle ==
    /\ requests = [w \in 1..Workers |-> NoRequest]
    /\ rate_store = NoEntry
    /\ granted = 0
    /\ expire_set_by = {}

VoiceIdle ==
    /\ chord_idx = 0
    /\ notes_in_measure = 0
    /\ note_idx = 0
    /\ harmony_note = NoNote
    /\ pad_idx = 0

HarmonyIdle ==
    /\ roman_numeral = "i"
    /\ chord_pitches = <<>>
    /\ harm_draw = [extend |-> FALSE, seventh |-> FALSE]

SynthIdle ==
    /\ tempo_bpm = 0
    /\ total_samples = 0
    /\ audio = <<>>
    /\ audio_int16 = <<>>
    /\ event_idx = 0
    /\ span = NoSpan
    /\ clips = 0

AudioIdle ==
    /\ numpy_available = FALSE
    /\ score = NoScore
    /\ synth_call = 0
    /\ SynthIdle
    /\ path_result = NoPaths
    /\ audio_available = FALSE
    /\ http = NoHttp

GuidanceIdle ==
    /\ mood = "melancholic"
    /\ redis_available = FALSE
    /\ cache = [k \in CacheKeys |-> NoValue]
    /\ response = NoResponse
    /\ returned = NoValue
    /\ plan_source = "none"

CompositionIdle ==
    /\ guidance = EmptyPlan
    /\ section_idx = 0
    /\ measure_idx = 0
    /\ current_measure = 0
    /\ left_hand = <<>>
    /\ right_hand = <<>>
    /\ piano_part = <<>>
    /\ draws = <<>>
    /\ rendered = <<>>
    /\ error = "none"

Init ==
    /\ pc = "start"
    /\ guidance \in Plans
    /\ innovation_level \in Innovations
    /\ key_obj = NoKey
    /\ section_idx = 0
    /\ measure_idx = 0
    /\ current_measure = 0
    /\ left_hand = <<>>
    /\ right_hand = <<>>
    /\ piano_part = <<>>
    /\ draws = <<>>
    /\ rendered = <<>>
    /\ error = "none"
    /\ HarmonyIdle
    /\ MelodyIdle
    /\ GuidanceIdle
    /\ AudioIdle
    /\ VoiceIdle
    /\ RateIdle

\* lines 228-291: the key, the empty parts, the counters
StartPiece ==
    /\ pc = "start"
    /\ key_obj' = ParseKey(guidance)
    /\ prev_melody_note' = NoNote
    /\ current_measure' = 0
    /\ section_idx' = 1
    /\ pc' = "section"
    /\ UNCHANGED <<walk, voiceVars, audioVars, rateVars, guidVars, innovation_level, harmVars, melVars, guidance, measure_idx,
                   left_hand, right_hand, piano_part, draws, rendered, error>>

CurrentSection == SectionsOf(guidance)[section_idx].data

\* lines 293-300: the next section of the plan, or the end of the loop
BeginSection ==
    /\ pc = "section"
    /\ IF section_idx > Len(SectionsOf(guidance))
       THEN /\ pc' = "merge"
            /\ UNCHANGED <<contour, measure_idx, error>>
       ELSE IF SectionMeasures(CurrentSection) = 0
       THEN /\ pc' = "raised"
            /\ error' = "ZeroDivisionError"
            /\ UNCHANGED <<contour, measure_idx>>
       ELSE /\ pc' = "measure"
            /\ contour' = SectionContour(CurrentSection)
            /\ measure_idx' = 0
            /\ UNCHANGED error
    /\ UNCHANGED <<walk, voiceVars, audioVars, rateVars, guidVars, key_obj, innovation_level, harmVars, prev_note, melody_note, calls,
                   prev_melody_note, guidance, section_idx, current_measure,
                   left_hand, right_hand, piano_part, draws, rendered>>

\* lines 302-354: one measure of the section
RenderMeasure ==
    /\ pc = "measure"
    /\ measure_idx < SectionMeasures(CurrentSection)
    /\ LET chords_list == SectionChords(CurrentSection)
           idx == ChordIdx(measure_idx, Len(chords_list),
                           SectionMeasures(CurrentSection))
       IN  IF idx < 0
           THEN \* chords_list[-1] of an empty list
                /\ pc' = "raised"
                /\ error' = "IndexError"
                /\ UNCHANGED <<melody_note, calls, prev_melody_note, measure_idx,
                               current_measure, left_hand, right_hand, draws, rendered>>
           ELSE \E cp \in {RomanToChord(chords_list[idx + 1], key_obj,
                                         innovation_level, hd) : hd \in HarmonyDraws} :
                \E d \in DrawsAt(current_measure, draws) :
                \E last \in MelodyChain(prev_melody_note, key_obj, contour,
                                        innovation_level, d.notes) :
                      /\ left_hand' = left_hand \o LeftHandOfMeasure(cp, d)
                      /\ right_hand' = right_hand \o RightHandOfMeasure(cp, d)
                      /\ melody_note' = last
                      /\ prev_melody_note' = last
                      /\ calls' = calls + d.notes
                      /\ draws' = IF current_measure < FreeMeasures
                                  THEN Append(draws, d) ELSE draws
                      /\ rendered' = Append(rendered, <<section_idx, measure_idx>>)
                      /\ measure_idx' = measure_idx + 1
                      /\ current_measure' = current_measure + 1
                      /\ UNCHANGED <<pc, error>>
    /\ UNCHANGED <<walk, voiceVars, audioVars, rateVars, guidVars, key_obj, innovation_level, harmVars, prev_note, contour, guidance,
                   section_idx, piano_part>>

\* the measures of the section are done: on to the next item of the plan
EndSection ==
    /\ pc = "measure"
    /\ measure_idx >= SectionMeasures(CurrentSection)
    /\ section_idx' = section_idx + 1
    /\ pc' = "section"
    /\ UNCHANGED <<walk, voiceVars, audioVars, rateVars, guidVars, key_obj, innovation_level, harmVars, melVars, prev_melody_note,
                   guidance, measure_idx, current_measure, left_hand, right_hand,
                   piano_part, draws, rendered, error>>

\* lines 356-400
MergeVoices ==
    /\ pc = "merge"
    /\ piano_part' = MergeHands(left_hand, right_hand)
    /\ pc' = "normalize"
    /\ UNCHANGED <<walk, voiceVars, audioVars, rateVars, guidVars, key_obj, innovation_level, harmVars, melVars, prev_melody_note,
                   guidance, section_idx, measure_idx, current_measure, left_hand,
                   right_hand, draws, rendered, error>>

\* lines 402-420: the padding loop, and the return of the score
Normalize ==
    /\ pc = "normalize"
    /\ LET pads == PadCount(current_measure)
       IN  /\ piano_part' = piano_part \o Padding(pads)
           /\ \E last \in MelodyChain(prev_melody_note, key_obj, "descending",
                                      innovation_level, pads) :
                /\ prev_melody_note' = last
                /\ melody_note' = IF pads > 0 THEN last ELSE melody_note
           /\ calls' = calls + pads
    /\ pc' = "done"
    /\ UNCHANGED <<walk, voiceVars, audioVars, rateVars, guidVars, key_obj, innovation_level, harmVars, prev_note, contour, guidance,
                   section_idx, measure_idx, current_measure, left_hand, right_hand,
                   draws, rendered, error>>

Next ==
    \/ StartPiece
    \/ BeginSection
    \/ RenderMeasure
    \/ EndSection
    \/ MergeVoices
    \/ Normalize

Spec == Init /\ [][Next]_vars

----------------------------------------------------------------------------
(* Specification of the voice state of create_chopin_piece: the same loops *)
(* with one generate_melody_note call a step. It follows the chord of each *)
(* measure and the notes passed to and returned by each call; the events   *)
(* appended to the parts are those of Spec and are left out here.          *)

VoicePlans == {RoundTripPlan, ShortPlan, EmptyChordsPlan, UnknownKeyPlan}

VoiceInit ==
    /\ pc = "start"
    /\ guidance \in VoicePlans
    /\ innovation_level \in Innovations
    /\ key_obj = NoKey
    /\ section_idx = 0
    /\ measure_idx = 0
    /\ current_measure = 0
    /\ left_hand = <<>>
    /\ right_hand = <<>>
    /\ piano_part = <<>>
    /\ draws = <<>>
    /\ rendered = <<>>
    /\ error = "none"
    /\ HarmonyIdle
    /\ MelodyIdle
    /\ GuidanceIdle
    /\ AudioIdle
    /\ VoiceIdle
    /\ RateIdle

\* the carried note taken from the harmony note when there is one
CarriedNoteHarmony(melody, harmony) == IF harmony # NoNote THEN harmony ELSE melody

\* line 345: prev_melody_note = melody_note
CarriedNote(melody, harmony) == melody

\* lines 302-331: the chord of the measure and the number of its melody notes
BeginMeasure ==
    /\ pc = "measure"
    /\ measure_idx < SectionMeasures(CurrentSection)
    /\ LET chords_list == SectionChords(CurrentSection)
           idx == ChordIdx(measure_idx, Len(chords_list),
                           SectionMeasures(CurrentSection))
       IN  IF idx < 0
           THEN \* chords_list[-1] of an empty list
                /\ pc' = "raised"
                /\ error' = "IndexError"
                /\ UNCHANGED <<chord_idx, roman_numeral, chord_pitches,
                               notes_in_measure, note_idx>>
           ELSE /\ chord_idx' = idx
                /\ roman_numeral' = chords_list[idx + 1]
                /\ chord_pitches' \in {RomanToChord(chords_list[idx + 1], key_obj,
                                                     innovation_level, hd) :
                                           hd \in HarmonyDraws}
                /\ notes_in_measure' \in {2, 3, 4}
                /\ note_idx' = 0
                /\ pc' = "notes"
                /\ UNCHANGED error
    /\ UNCHANGED <<walk, audioVars, rateVars, guidVars, key_obj, innovation_level, harm_draw,
                   melVars, prev_melody_note, guidance, section_idx, measure_idx,
                   current_measure, left_hand, right_hand, piano_part, draws,
                   rendered, harmony_note, pad_idx>>

\* lines 348-350: the harmony note that may follow a melody note
HarmonyNotes(cp, melody) ==
    {NoNote} \cup (IF Len(cp) > 1
                   THEN {[step |-> cp[2].step, octave |-> melody.octave]}
                   ELSE {})

\* lines 333-352: one melody note of the measure
VoiceNote ==
    /\ pc = "notes"
    /\ note_idx < notes_in_measure
    /\ melody_note' \in MelodyChain(prev_melody_note, key_obj, contour,
                                     innovation_level, 1)
    /\ harmony_note' \in HarmonyNotes(chord_pitches, melody_note')
    /\ prev_melody_note' = CarriedNote(melody_note', harmony_note')
    /\ calls' = calls + 1
    /\ note_idx' = note_idx + 1
    /\ UNCHANGED <<walk, audioVars, rateVars, guidVars, pc, key_obj, innovation_level, harmVars,
                   prev_note, contour, compVars, chord_idx, notes_in_measure, pad_idx>>

\* line 354
EndMeasure ==
    /\ pc = "notes"
    /\ note_idx >= notes_in_measure
    /\ rendered' = Append(rendered, <<section_idx, measure_idx>>)
    /\ measure_idx' = measure_idx + 1
    /\ current_measure' = current_measure + 1
    /\ pc' = "measure"
    /\ UNCHANGED <<walk, audioVars, rateVars, guidVars, key_obj, innovation_level, harmVars,
                   melVars, prev_melody_note, guidance, section_idx, left_hand,
                   right_hand, piano_part, draws, error, voiceVars>>

\* lines 356-408: the merge leaves the carried note alone; the locals of the
\* measure loop are not read again and go back to their idle values
VoiceMerge ==
    /\ pc = "merge"
    /\ chord_idx' = 0
    /\ notes_in_measure' = 0
    /\ note_idx' = 0
    /\ harmony_note' = NoNote
    /\ pad_idx' = 0
    /\ roman_numeral' = "i"
    /\ chord_pitches' = <<>>
    /\ pc' = "normalize"
    /\ UNCHANGED <<walk, audioVars, rateVars, guidVars, key_obj, innovation_level, harm_draw,
                   melVars, prev_melody_note, compVars>>

\* lines 410-418: one added measure
PadMeasure ==
    /\ pc = "normalize"
    /\ pad_idx < PadCount(current_measure)
    /\ melody_note' \in MelodyChain(prev_melody_note, key_obj, "descending",
                                     innovation_level, 1)
    /\ prev_melody_note' = melody_note'
    /\ calls' = calls + 1
    /\ pad_idx' = pad_idx + 1
    /\ UNCHANGED <<walk, audioVars, rateVars, guidVars, pc, key_obj, innovation_level, harmVars,
                   prev_note, contour, compVars, chord_idx, notes_in_measure, note_idx,
                   harmony_note>>

\* line 420
VoiceReturn ==
    /\ pc = "normalize"
    /\ pad_idx >= PadCount(current_measure)
    /\ pc' = "done"
    /\ UNCHANGED <<walk, audioVars, rateVars, guidVars, key_obj, innovation_level, harmVars,
                   melVars, prev_melody_note, compVars, voiceVars>>

VoiceNext ==
    \/ StartPiece
    \/ BeginSection
    \/ BeginMeasure
    \/ VoiceNote
    \/ EndMeasure
    \/ EndSection
    \/ VoiceMerge
    \/ PadMeasure
    \/ VoiceReturn

SpecVoice == VoiceInit /\ [][VoiceNext]_vars

----------------------------------------------------------------------------
(* Specification of generate_melody_note alone: a chain of calls, each     *)
(* receiving the note the call before it returned                          *)

\* number of calls of one chain
MaxCalls == 2

\* octaves of the notes a chain may start from, inside and outside the range
MaxInputOctave == 7

InputNotes ==
    {NoNote} \cup [step : 0..(Letters - 1), octave : 1..MaxInputOctave]

MelodyInit ==
    /\ pc = "melody"
    /\ key_obj \in {CMinor, DMinor}
    /\ innovation_level \in Innovations
    /\ prev_melody_note \in InputNotes
    /\ prev_note = NoNote
    /\ contour = "arch"
    /\ melody_note = NoNote
    /\ walk = NoWalk
    /\ calls = 0
    /\ HarmonyIdle
    /\ CompositionIdle
    /\ GuidanceIdle
    /\ AudioIdle
    /\ VoiceIdle
    /\ RateIdle

MelodyCall ==
    /\ pc = "melody"
    /\ calls < MaxCalls
    /\ \E ctr \in Contours :
         /\ contour' = ctr
         /\ melody_note' \in MelodyNotes(prev_melody_note, key_obj, ctr,
                                          innovation_level)
    /\ prev_note' = prev_melody_note
    /\ prev_melody_note' = melody_note'
    /\ calls' = calls + 1
    /\ UNCHANGED <<walk, voiceVars, audioVars, rateVars, guidVars, pc, key_obj, innovation_level, harmVars, compVars>>

MelodyNext == MelodyCall

SpecMelody == MelodyInit /\ [][MelodyNext]_vars

----------------------------------------------------------------------------
(* Specification of one generate_melody_note call, keeping the scale       *)
(* indices it computes                                                     *)

WalkInit == MelodyInit

\* lines 169-216, with current_idx, step and new_idx kept in walk
WalkCall ==
    /\ pc = "melody"
    /\ calls = 0
    /\ LET scale == KeyPitches(key_obj)
       IN  \E ctr \in Contours :
           \E w \in {WalkOf(prev_melody_note, scale, ctr, d) :
                        d \in IndexDraws(prev_melody_note, scale, ctr, innovation_level)} :
           \E octave \in {NewOctave(prev_melody_note, shift) : shift \in NudgeChoices} :
               /\ contour' = ctr
               /\ walk' = w
               /\ melody_note' = [step |-> ScaleAt(scale, w.new_idx).step,
                                  octave |-> octave]
    /\ prev_note' = prev_melody_note
    /\ prev_melody_note' = melody_note'
    /\ calls' = calls + 1
    /\ UNCHANGED <<voiceVars, audioVars, rateVars, guidVars, pc, key_obj, innovation_level,
                   harmVars, compVars>>

WalkNext == WalkCall

SpecWalk == WalkInit /\ [][WalkNext]_vars

----------------------------------------------------------------------------
(* Specification of roman_to_chord alone: a sequence of calls              *)

HarmonyInit ==
    /\ pc = "call"
    /\ key_obj \in Keys
    /\ innovation_level \in Innovations
    /\ roman_numeral \in Symbols
    /\ chord_pitches = <<>>
    /\ harm_draw = [extend |-> FALSE, seventh |-> FALSE]
    /\ MelodyIdle
    /\ CompositionIdle
    /\ GuidanceIdle
    /\ AudioIdle
    /\ VoiceIdle
    /\ RateIdle

ResolveHarmony ==
    /\ pc = "call"
    /\ \E d \in HarmonyDraws :
         /\ chord_pitches' = RomanToChord(roman_numeral, key_obj, innovation_level, d)
         /\ harm_draw' = d
    /\ pc' = "returned"
    /\ UNCHANGED <<walk, voiceVars, audioVars, rateVars, guidVars, key_obj, innovation_level, roman_numeral, melVars, prev_melody_note,
                   compVars>>

NextHarmonyCall ==
    /\ pc = "returned"
    /\ roman_numeral' \in Symbols
    /\ pc' = "call"
    /\ UNCHANGED <<walk, voiceVars, audioVars, rateVars, guidVars, key_obj, innovation_level, chord_pitches, harm_draw, melVars,
                   prev_melody_note, compVars>>

HarmonyNext == ResolveHarmony \/ NextHarmonyCall

SpecHarmony == HarmonyInit /\ [][HarmonyNext]_vars

----------------------------------------------------------------------------
(* Specification of get_mistral_guidance: a sequence of calls against one  *)
(* Redis store, whose entries expire                                       *)

GuidanceInit ==
    /\ pc = "guidance"
    /\ key_obj = NoKey
    /\ innovation_level \in Innovations
    /\ mood \in Moods
    /\ redis_available \in BOOLEAN
    /\ cache = [k \in CacheKeys |-> NoValue]
    /\ response = NoResponse
    /\ returned = NoValue
    /\ plan_source = "none"
    /\ HarmonyIdle
    /\ MelodyIdle
    /\ CompositionIdle
    /\ AudioIdle
    /\ VoiceIdle
    /\ RateIdle

\* lines 32-131: one call, from the cache lookup to its return
GetMistralGuidance ==
    /\ pc = "guidance"
    /\ \E get_ok \in (IF redis_available THEN BOOLEAN ELSE {TRUE}) :
         LET cached == GetCachedMistralResponse(cache, redis_available, get_ok,
                                                mood, innovation_level)
         IN  IF Truthy(cached)
             THEN /\ returned' = cached
                  /\ plan_source' = "cache"
                  /\ response' = NoResponse
                  /\ UNCHANGED cache
             ELSE \E r \in Responses :
                    LET parsed == Advised(r)
                    IN  /\ response' = r
                        /\ IF parsed # NoValue
                           THEN /\ returned' = parsed
                                /\ plan_source' = "service"
                                /\ \E set_ok \in (IF redis_available THEN BOOLEAN
                                                  ELSE {TRUE}) :
                                     cache' = CacheMistralResponse(
                                                  cache, redis_available, set_ok,
                                                  mood, innovation_level, parsed)
                           ELSE /\ returned' = JsonObject(FallbackPlan)
                                /\ plan_source' = "fallback"
                                /\ UNCHANGED cache
    /\ pc' = "returned"
    /\ UNCHANGED <<key_obj, innovation_level, mood, redis_available, harmVars, melVars,
                   prev_melody_note, compVars, audioVars, rateVars, voiceVars, walk>>

\* the next request, with its mood
NextGuidanceCall ==
    /\ pc = "returned"
    /\ mood' \in Moods
    /\ pc' = "guidance"
    /\ UNCHANGED <<key_obj, innovation_level, redis_available, cache, response, returned,
                   plan_source, harmVars, melVars, prev_melody_note, compVars,
                   audioVars, rateVars, voiceVars, walk>>

\* setex(cache_key, ttl, ...): an entry is gone once its ttl has run out
ExpireEntry ==
    /\ pc = "guidance"
    /\ \E k \in CacheKeys :
         /\ cache[k] # NoValue
         /\ cache' = [cache EXCEPT ![k] = NoValue]
    /\ UNCHANGED <<pc, key_obj, innovation_level, mood, redis_available, response,
                   returned, plan_source, harmVars, melVars, prev_melody_note, compVars,
                   audioVars, rateVars, voiceVars, walk>>

GuidanceNext == GetMistralGuidance \/ NextGuidanceCall \/ ExpireEntry

SpecGuidance == GuidanceInit /\ [][GuidanceNext]_vars

----------------------------------------------------------------------------
(* Specification of generate_music from the composition on: the MIDI file, *)
(* the synthesizer, the alternate rendering path, the response             *)

\* data.get('innovationLevel', 0.3)
DefaultInnovation == 30

otherVars == <<key_obj, innovation_level, harmVars, melVars, prev_melody_note, compVars,
               guidVars, voiceVars, walk, rateVars>>

AudioInit ==
    /\ pc = "request"
    /\ key_obj = NoKey
    /\ innovation_level = DefaultInnovation
    /\ numpy_available \in BOOLEAN
    /\ score = NoScore
    /\ synth_call = 0
    /\ SynthIdle
    /\ path_result = NoPaths
    /\ audio_available = FALSE
    /\ http = NoHttp
    /\ HarmonyIdle
    /\ MelodyIdle
    /\ CompositionIdle
    /\ GuidanceIdle
    /\ VoiceIdle
    /\ RateIdle

\* the response of the except branch of generate_music, lines 610-614
ServerError == [status |-> 500, success |-> FALSE, audioAvailable |-> FALSE,
                audioPath |-> FALSE]

\* line 585: create_chopin_piece returns a score or raises
ComposeScore ==
    /\ pc = "request"
    /\ \/ /\ score' \in Scores
          /\ pc' = "midi"
          /\ UNCHANGED http
       \/ /\ http' = ServerError
          /\ pc' = "responded"
          /\ UNCHANGED score
    /\ UNCHANGED <<otherVars, numpy_available, synth_call, synthVars, path_result,
                   audio_available>>

\* lines 587-589: score.write('midi') succeeds or raises
WriteMidi ==
    /\ pc = "midi"
    /\ \/ /\ pc' = "synth"
          /\ synth_call' = 1
          /\ UNCHANGED http
       \/ /\ http' = ServerError
          /\ pc' = "responded"
          /\ UNCHANGED synth_call
    /\ UNCHANGED <<otherVars, numpy_available, score, synthVars, path_result,
                   audio_available>>

\* the synthesizer returns b, and the request answers without another path
SynthReturnsNoAlternate(b) ==
    /\ path_result' = [path_result EXCEPT ![synth_call] = IF b THEN "true" ELSE "false"]
    /\ audio_available' = b
    /\ pc' = "respond"

\* the synthesizer returns b: to generate_music (lines 594-597), or through
\* midi_to_audio (line 555) to generate_music
SynthReturns(b) ==
    /\ path_result' = [path_result EXCEPT ![synth_call] = IF b THEN "true" ELSE "false"]
    /\ audio_available' = b
    /\ pc' = IF synth_call = 1 /\ ~b THEN "alternate" ELSE "respond"

\* the locals of a call that returned False, and the file it did not write
SynthAbandoned ==
    /\ tempo_bpm' = 0
    /\ total_samples' = 0
    /\ audio' = <<>>
    /\ audio_int16' = <<>>
    /\ event_idx' = 0
    /\ span' = NoSpan
    /\ clips' = 0

\* lines 424-439: the imports, the tempo, the empty buffer
SynthBegin ==
    /\ pc = "synth"
    /\ IF ~numpy_available
       THEN /\ SynthReturns(FALSE)
            /\ UNCHANGED synthVars
       ELSE /\ tempo_bpm' = TempoOf(score)
            /\ total_samples' \in TotalSampleCounts(score, TempoOf(score))
            /\ audio' = [i \in 1..total_samples' |-> 0]
            /\ audio_int16' = <<>>
            /\ event_idx' = 1
            /\ span' = NoSpan
            /\ clips' = 0
            /\ pc' = "summing"
            /\ UNCHANGED <<path_result, audio_available>>
    /\ UNCHANGED <<otherVars, numpy_available, score, synth_call, http>>

\* lines 442-503: one element of score.flatten().notes
SynthEvent ==
    /\ pc = "summing"
    /\ event_idx <= Len(score.events)
    /\ LET e == score.events[event_idx] IN
       \E start_sample \in SampleCounts(e.offset, tempo_bpm),
          end_sample \in SampleCounts(e.offset + e.dur, tempo_bpm),
          shape \in WaveShapes :
            LET num_samples == end_sample - start_sample
                end_idx == EndIdx(start_sample, num_samples, total_samples)
                added == AddWave(audio, start_sample, end_idx, shape, Gain(e))
            IN  /\ span' = [start |-> start_sample, end |-> end_sample]
                /\ IF num_samples > 0 /\ start_sample < total_samples
                   THEN IF added.raised
                        THEN /\ SynthReturns(FALSE)
                             /\ UNCHANGED <<audio, event_idx>>
                        ELSE /\ audio' = added.value
                             /\ event_idx' = event_idx + 1
                             /\ UNCHANGED <<pc, path_result, audio_available>>
                   ELSE /\ event_idx' = event_idx + 1
                        /\ UNCHANGED <<pc, audio, path_result, audio_available>>
    /\ UNCHANGED <<otherVars, numpy_available, score, synth_call, tempo_bpm,
                   total_samples, audio_int16, clips, http>>

\* lines 505-511: clip, quantize, write the WAV file, return True
SynthFinish ==
    /\ pc = "summing"
    /\ event_idx > Len(score.events)
    /\ audio' = [i \in 1..Len(audio) |-> Clip(audio[i])]
    /\ clips' = clips + 1
    /\ audio_int16' = [i \in 1..Len(audio) |-> Quantize(audio'[i])]
    /\ SynthReturns(TRUE)
    /\ UNCHANGED <<otherVars, numpy_available, score, synth_call, tempo_bpm,
                   total_samples, event_idx, span, http>>

\* lines 512-514: anything raised inside the try block (the buffer cannot be
\* allocated, the WAV file cannot be written) is caught: return False
SynthRaises ==
    /\ pc = "summing"
    /\ SynthReturns(FALSE)
    /\ SynthAbandoned
    /\ UNCHANGED <<otherVars, numpy_available, score, synth_call, http>>

\* lines 516-559: fluidsynth renders the file, or the MIDI file is parsed and
\* handed to the synthesizer, or parsing raises. The file parsed is the one
\* written from the score, and it gives the score's notes, chords and tempo.
MidiToAudio ==
    /\ pc = "alternate"
    /\ \/ /\ path_result' = [path_result EXCEPT ![2] = "true"]
          /\ audio_available' = TRUE
          /\ pc' = "respond"
          /\ UNCHANGED <<score, synth_call>>
       \/ /\ synth_call' = 2
          /\ pc' = "synth"
          /\ UNCHANGED <<score, path_result, audio_available>>
       \/ /\ path_result' = [path_result EXCEPT ![2] = "false"]
          /\ audio_available' = FALSE
          /\ pc' = "respond"
          /\ UNCHANGED <<score, synth_call>>
    /\ UNCHANGED <<otherVars, numpy_available, synthVars, http>>

\* lines 599-609
Respond ==
    /\ pc = "respond"
    /\ http' = [status |-> 200, success |-> TRUE, audioAvailable |-> audio_available,
                audioPath |-> audio_available]
    /\ pc' = "responded"
    /\ UNCHANGED <<otherVars, numpy_available, score, synth_call, synthVars, path_result,
                   audio_available>>

AudioNext ==
    \/ ComposeScore
    \/ WriteMidi
    \/ SynthBegin
    \/ SynthEvent
    \/ SynthFinish
    \/ SynthRaises
    \/ MidiToAudio
    \/ Respond

SpecAudio == AudioInit /\ [][AudioNext]_vars

----------------------------------------------------------------------------
(* Specification of the rate limit of generate_music: the requests of one  *)
(* client, each a worker that runs rate_limit command by command           *)

RateInit ==
    /\ pc = "serving"
    /\ key_obj = NoKey
    /\ innovation_level = DefaultInnovation
    /\ mood = "melancholic"
    /\ redis_available \in BOOLEAN
    /\ cache = [k \in CacheKeys |-> NoValue]
    /\ response = NoResponse
    /\ returned = NoValue
    /\ plan_source = "none"
    /\ HarmonyIdle
    /\ MelodyIdle
    /\ CompositionIdle
    /\ AudioIdle
    /\ VoiceIdle
    /\ RateIdle

rateOthers == <<pc, key_obj, innovation_level, harmVars, melVars, prev_melody_note,
                compVars, guidVars, audioVars, voiceVars, walk>>

\* the call returns: what the request does with the value
Returns(w, allowed, path) ==
    [requests EXCEPT ![w].at = "returned", ![w].path = path,
                     ![w].result = ResultOf(allowed)]

\* lines 562-565 of app.py and 106-107: a request reaches rate_limit
BeginRequest(w) ==
    /\ requests[w].at = "idle"
    /\ IF redis_available
       THEN requests' = [requests EXCEPT ![w].at = "incr"]
       ELSE requests' = Returns(w, TRUE, "unavailable")
    /\ UNCHANGED <<rate_store, granted, expire_set_by, rateOthers>>

\* line 111: current = redis_client.incr(rate_key)
Incr(w) ==
    /\ requests[w].at = "incr"
    /\ LET current == Incremented(rate_store)
       IN  /\ rate_store' = [rate_store EXCEPT !.count = current]
           /\ requests' = [requests EXCEPT
                             ![w].current = current,
                             ![w].at = IF current = 1 THEN "expire" ELSE "return"]
    /\ UNCHANGED <<granted, expire_set_by, rateOthers>>

\* line 111 raises, the increment made or not: lines 117-119 return True
IncrRaises(w) ==
    /\ requests[w].at = "incr"
    /\ rate_store' \in {rate_store,
                        [rate_store EXCEPT !.count = Incremented(rate_store)]}
    /\ requests' = Returns(w, TRUE, "raised")
    /\ UNCHANGED <<granted, expire_set_by, rateOthers>>

\* lines 113-114: redis_client.expire(rate_key, window)
Expire(w) ==
    /\ requests[w].at = "expire"
    /\ rate_store' = [rate_store EXCEPT !.has_expiry = (rate_store.count > 0)]
    /\ expire_set_by' = expire_set_by \cup {requests[w].current}
    /\ requests' = [requests EXCEPT ![w].at = "return"]
    /\ UNCHANGED <<granted, rateOthers>>

\* line 114 raises, the expiry set or not: lines 117-119 return True
ExpireRaises(w) ==
    /\ requests[w].at = "expire"
    /\ \E done \in BOOLEAN :
         /\ rate_store' = IF done
                          THEN [rate_store EXCEPT !.has_expiry = (rate_store.count > 0)]
                          ELSE rate_store
         /\ expire_set_by' = IF done THEN expire_set_by \cup {requests[w].current}
                             ELSE expire_set_by
    /\ requests' = Returns(w, TRUE, "raised")
    /\ UNCHANGED <<granted, rateOthers>>

\* line 116: return current <= max_requests
Return(w) ==
    /\ requests[w].at = "return"
    /\ LET allowed == WithinLimit(requests[w].current)
       IN  /\ requests' = Returns(w, allowed, "counted")
           /\ granted' = IF allowed /\ ~requests[w].stale THEN granted + 1 ELSE granted
    /\ UNCHANGED <<rate_store, expire_set_by, rateOthers>>

\* the request is answered; the client sends its next one
EndRequest(w) ==
    /\ requests[w].at = "returned"
    /\ requests' = [requests EXCEPT ![w] = NoRequest]
    /\ UNCHANGED <<rate_store, granted, expire_set_by, rateOthers>>

\* the store deletes the key when its expiry runs out; the calls still
\* running hold a count of the counter that is gone
KeyExpires ==
    /\ rate_store.count > 0
    /\ rate_store.has_expiry
    /\ rate_store' = NoEntry
    /\ granted' = 0
    /\ expire_set_by' = {}
    /\ requests' = [w \in 1..Workers |->
                      IF requests[w].at \in {"expire", "return"}
                      THEN [requests[w] EXCEPT !.stale = TRUE] ELSE requests[w]]
    /\ UNCHANGED rateOthers

Worker(w) ==
    \/ BeginRequest(w)
    \/ Incr(w)
    \/ IncrRaises(w)
    \/ Expire(w)
    \/ ExpireRaises(w)
    \/ Return(w)
    \/ EndRequest(w)

RateNext == (\E w \in 1..Workers : Worker(w)) \/ KeyExpires

SpecRate == RateInit /\ [][RateNext]_vars

\* every request handler keeps running, and the store's clock keeps running
RateFairness ==
    /\ \A w \in 1..Workers : WF_vars(Worker(w))
    /\ WF_vars(KeyExpires)

SpecRateFair == SpecRate /\ RateFairness

----------------------------------------------------------------------------
(* Claims about generate_melody_note                                       *)

\* C1: every note generate_melody_note returns has its octave in [3,6],
\* whatever the previous note, the contour, the innovation level and the
\* random outcomes; so along a chain of calls, each fed the note before it,
\* the carried note stays in that range too.
C1_OctaveClamped ==
    calls > 0 =>
        /\ melody_note.octave \in MinOctave..MaxOctave
        /\ prev_melody_note.octave \in MinOctave..MaxOctave

\* a call whose previous note lay above the range returned a note at its top
C1_Witness ==
    /\ calls > 0
    /\ prev_note # NoNote
    /\ prev_note.octave > MaxOctave
    /\ melody_note.octave = MaxOctave

----------------------------------------------------------------------------
(* Claims about roman_to_chord                                             *)

\* the 7 pitches of the key's scale: its degrees 0..6
ScaleDegrees(k) == {ScalePitch(k, i) : i \in 0..(DegreeMod - 1)}

\* C5: roman_to_chord returns at least 3 pitches, and each of them, an
\* appended extension included, is one of the 7 pitches of the key's scale.
C5_ChordInScale ==
    pc = "returned" =>
        /\ Len(chord_pitches) >= 3
        /\ \A j \in 1..Len(chord_pitches) : chord_pitches[j] \in ScaleDegrees(key_obj)

\* a known symbol whose degrees wrap past the scale came back with an extension
C5_Witness ==
    /\ pc = "returned"
    /\ roman_numeral = "VII"
    /\ Len(chord_pitches) = 4

\* C6: a symbol that is not in the table resolves to the same pitch list as
\* the symbol "i" does for the same key, innovation level and random outcomes.
C6_TonicFallback ==
    (pc = "returned" /\ roman_numeral \notin KnownSymbols) =>
        chord_pitches = RomanToChord("i", key_obj, innovation_level, harm_draw)

----------------------------------------------------------------------------
(* Claims about create_chopin_piece                                        *)

\* 12 measures of 4 beats, in ticks
FloorTicks == TargetMeasures * BeatsPerMeasure * TicksPerBeat

\* C2: whatever the plan and the random outcomes, the event sequence
\* create_chopin_piece returns lasts at least 48 beats (12 measures of 4).
C2_FloorReached ==
    pc = "done" => Ticks(piano_part) >= FloorTicks

\* a plan shorter than the target was rendered, and padded to the floor exactly
C2_Witness ==
    /\ pc = "done"
    /\ current_measure \in 1..(TargetMeasures - 1)
    /\ Ticks(piano_part) = FloorTicks

\* s is the beginning of t
IsPrefix(s, t) == Len(s) <= Len(t) /\ SubSeq(t, 1, Len(s)) = s

\* C3: the normalizer only pads: the merged sequence is the beginning of the
\* sequence returned, event for event, and when the plan totals 12 measures or
\* more the sequence returned is the merged sequence itself.
C3_PaddingOnly ==
    pc = "done" =>
        /\ IsPrefix(MergeHands(left_hand, right_hand), piano_part)
        /\ current_measure >= TargetMeasures =>
               piano_part = MergeHands(left_hand, right_hand)

\* a plan of 12 measures was merged and returned
C3_Witness ==
    /\ pc = "done"
    /\ current_measure >= TargetMeasures
    /\ Len(piano_part) > 0
    /\ piano_part = MergeHands(left_hand, right_hand)

\* the measures a plan configures: the measures of each section (4 for a
\* section that names none), added up
RECURSIVE ConfiguredTotal(_)
ConfiguredTotal(secs) ==
    IF secs = <<>> THEN 0
    ELSE (IF "measures" \in DOMAIN Head(secs).data THEN Head(secs).data.measures
          ELSE DefaultMeasures) + ConfiguredTotal(Tail(secs))

\* the measures of a plan in plan order, from section s on
RECURSIVE PlanOrder(_, _)
PlanOrder(secs, s) ==
    IF s > Len(secs) THEN <<>>
    ELSE [m \in 1..ConfiguredTotal(<<secs[s]>>) |-> <<s, m - 1>>] \o PlanOrder(secs, s + 1)

\* C4: after the last section the measure counter equals the sum of the
\* sections' configured measures, and every measure was rendered exactly
\* once, in plan order.
C4_MeasureCount ==
    pc \in {"merge", "normalize", "done"} =>
        /\ current_measure = ConfiguredTotal(SectionsOf(guidance))
        /\ rendered = PlanOrder(SectionsOf(guidance), 1)

\* a plan of several sections was rendered to its end
C4_Witness ==
    /\ pc = "merge"
    /\ Len(SectionsOf(guidance)) > 1
    /\ current_measure = TargetMeasures
    /\ Len(rendered) = TargetMeasures

\* C7: a plan with no sections makes create_chopin_piece fail with an
\* EmptyCompositionError; it never returns a result for such a plan.
C7_EmptyPlanFails ==
    (SectionsOf(guidance) = <<>> /\ pc \in {"done", "raised"}) =>
        (pc = "raised" /\ error = "EmptyCompositionError")

\* the section provides no chords: its chord list is absent or empty
ProvidesNoChords(sd) == "chords" \notin DOMAIN sd \/ sd.chords = <<>>

\* C8: a section that provides no chords (an empty or absent chord list) is
\* rendered, and create_chopin_piece does not fail in it.
C8_NoChordsRendered ==
    (/\ section_idx \in 1..Len(SectionsOf(guidance))
     /\ ProvidesNoChords(CurrentSection)) => pc # "raised"

\* C9: for the plan {C minor, tempo 80, one section, chords i V i, 3
\* measures, descending} the merged sequence lasts exactly 12 beats and the
\* sequence returned exactly 48 beats, whatever the random outcomes.
C9_RoundTripBeats ==
    guidance = RoundTripPlan =>
        /\ pc = "normalize" => Ticks(piano_part) = 3 * BeatsPerMeasure * TicksPerBeat
        /\ pc = "done" => Ticks(piano_part) = FloorTicks

----------------------------------------------------------------------------
(* Claims about get_mistral_guidance                                       *)

\* the fields of a plan: the keys of a JSON object, none for any other value
PlanFields(v) == IF v.type = "object" THEN DOMAIN v.value ELSE {}

\* the service gave no plan: every model raised, or the payload is no JSON,
\* or it is JSON without a key or without sections
NoPlanGiven(r) ==
    \/ r.answered = 0
    \/ ~r.content.well_formed
    \/ ~({"key", "sections"} \subseteq PlanFields(r.content.doc))

\* C10: every call of get_mistral_guidance returns a plan that has a key and
\* sections; when the service fails for every model or its payload lacks key
\* or sections, the call returns the built-in fallback plan and leaves the
\* cache as it was.
C10_PlanOrFallback ==
    [][pc' = "returned" =>
          /\ {"key", "sections"} \subseteq PlanFields(returned')
          /\ (plan_source' # "cache" /\ NoPlanGiven(response')) =>
                 /\ returned' = JsonObject(FallbackPlan)
                 /\ cache' = cache]_vars

----------------------------------------------------------------------------
(* Claims about generate_music and the synthesizer                         *)

\* the outcome of the last rendering path tried
LastPathOutcome ==
    IF path_result[2] # "none" THEN path_result[2] ELSE path_result[1]

\* C11: with the numeric capability missing the synthesizer returns False,
\* and no failure of the synthesizer aborts the request; the alternate path
\* is tried exactly when the first path returned False; the request answers
\* 200 with success and audioAvailable equal to the outcome of the last path
\* tried.
C11_AlternatePath ==
    /\ (~numpy_available /\ path_result[1] # "none") => path_result[1] = "false"
    /\ http.status = 500 => path_result[1] = "none"
    /\ pc = "alternate" => path_result = <<"false", "none">>
    /\ pc \in {"respond", "responded"} /\ path_result[1] # "none" =>
           (path_result[2] # "none" <=> path_result[1] = "false")
    /\ pc = "responded" /\ path_result[1] # "none" =>
           /\ http.status = 200
           /\ http.success
           /\ http.audioAvailable = (LastPathOutcome = "true")

\* without numpy the first path returned False, the alternate path rendered
\* the audio, and the request answered with the audio available
C11_Witness ==
    /\ pc = "responded"
    /\ ~numpy_available
    /\ path_result = <<"false", "true">>
    /\ http.status = 200
    /\ http.audioAvailable

\* C12: np.clip runs once in a call, after every element has been summed
\* and before the quantization; every sample quantized lies in [-1.0, 1.0]
\* and every 16-bit sample written lies in [-32767, 32767].
C12_ClippedOnce ==
    /\ clips <= 1
    /\ pc = "summing" => (clips = 0 /\ audio_int16 = <<>>)
    /\ clips = 1 =>
           /\ event_idx > Len(score.events)
           /\ Len(audio_int16) = Len(audio)
           /\ \A i \in 1..Len(audio) :
                  /\ audio[i] \in (0 - FullScale)..FullScale
                  /\ audio_int16[i] \in (0 - Int16Scale)..Int16Scale

\* a chord summed past full scale was clipped to 1.0 and written as 32767
C12_Witness ==
    /\ clips = 1
    /\ \E j \in 1..Len(score.events) : Gain(score.events[j]) > FullScale
    /\ \E i \in 1..Len(audio) : audio[i] = FullScale /\ audio_int16[i] = Int16Scale

\* num / den rounded to the nearest whole number
RoundDiv(num, den) == (2 * num + den) \div (2 * den)

\* round(total_duration_seconds * sample_rate) of a score
ExpectedSamples(sc) ==
    RoundDiv(sc.ql * SecondsPerMinute * SampleRate, TicksPerBeat * TempoOf(sc))

\* the last element summed ends past the buffer
RunsPast == span.end > span.start /\ span.start < total_samples /\ span.end > total_samples

\* C13: the buffer length is within one sample of round(duration in seconds
\* times sample rate) and never changes while the elements are summed; an
\* element whose span runs past the end of the buffer is summed up to the end
\* of the buffer, and the synthesis goes on.
C13_BufferLength ==
    tempo_bpm # 0 =>
        /\ total_samples - ExpectedSamples(score) \in -1..1
        /\ Len(audio) = total_samples
        /\ (clips = 0 /\ RunsPast) => pc = "summing"

\* an element ending one sample past the buffer was summed into its last sample
C13_Witness ==
    /\ pc = "summing"
    /\ RunsPast
    /\ Len(audio) = total_samples
    /\ audio[total_samples] # 0

----------------------------------------------------------------------------
(* Claims about the merge of the two hands                                 *)

\* pitches the event of a hand at list index i brings to the merge: those of
\* a note or a chord, none for a rest or past the end of the hand
PitchesOf(hand, i) ==
    IF i <= Len(hand) /\ hand[i].kind # "rest" THEN hand[i].np ELSE 0

PitchesAt(i) == PitchesOf(left_hand, i) + PitchesOf(right_hand, i)

\* position in the merged part of the event emitted for list index i
Emitted(i) == Cardinality({j \in 1..i : PitchesAt(j) >= 1})

MergeIndices == 1..Max(Len(left_hand), Len(right_hand))

----------------------------------------------------------------------------
(* Claims about the voice state of create_chopin_piece                     *)

\* C16: sections are rendered in plan order, and the previous note passed to
\* each generate_melody_note call (the carried note at the time of the call)
\* is the melody note the call before it returned, None for the very first
\* call only: across measures, sections and the padding measures. A harmony
\* note never becomes the previous note.
C16_CarriedNote ==
    [][ /\ calls' = calls + 1 =>
              /\ prev_melody_note = melody_note
              /\ (calls = 0) <=> (prev_melody_note = NoNote)
        /\ section_idx' \in {section_idx, section_idx + 1}
        /\ rendered' # rendered =>
              /\ rendered'[Len(rendered')][1] = section_idx
              /\ \A i \in 1..Len(rendered) : rendered[i][1] <= section_idx
      ]_vars

\* in the second section of a plan, a call has returned a note, a harmony
\* note of another pitch has followed it, and the melody note is carried
C16_Witness ==
    /\ pc = "notes"
    /\ section_idx = 2
    /\ measure_idx = 0
    /\ note_idx = 1
    /\ calls >= 3
    /\ harmony_note # NoNote
    /\ harmony_note # melody_note
    /\ prev_melody_note = melody_note

\* the key name of the plan is one key.Key does not resolve
KeyUnresolvable(g) == "key" \in DOMAIN g /\ g.key \notin DOMAIN KeyTable

\* the pitches of the events the last step appended: the bass note and the
\* block chord of the measure, the melody note and its harmony note, the
\* bass note of a padding measure
EmittedPitches ==
    {chord_pitches[i] : i \in 1..Len(chord_pitches)}
        \cup ({melody_note, harmony_note} \ {NoNote})
        \cup (IF pad_idx > 0 THEN {ScaleAt(KeyPitches(key_obj), 0)} ELSE {})

DMinorNames == {PitchName(DMinor, ScalePitch(DMinor, i)) : i \in 0..(ScaleLen - 1)}

\* C17: when the key name of the plan cannot be resolved, create_chopin_piece
\* does not fail: it goes on in d minor, and every pitch it emits afterwards
\* has the name of a pitch of the d minor scale.
C17_KeyFallback ==
    (KeyUnresolvable(guidance) /\ pc # "start") =>
        /\ key_obj = DMinor
        /\ pc # "raised"
        /\ error = "none"
        /\ \A p \in EmittedPitches : PitchName(key_obj, p) \in DMinorNames

\* a piece whose key name did not resolve has been rendered and padded, the
\* last notes named B flat, which d minor has and the other keys spell apart
C17_Witness ==
    /\ KeyUnresolvable(guidance)
    /\ pc = "done"
    /\ pad_idx > 0
    /\ calls > pad_idx
    /\ melody_note.step = 6
    /\ PitchName(key_obj, melody_note) = [step |-> 6, alter |-> -1]

\* a step that fixes the chord of a measure
ChoosesChord == pc = "measure" /\ pc' = "notes"

\* floor(m x L / M), inside the list, 0 first, never decreasing
ProportionalIndex ==
    LET L == Len(SectionChords(CurrentSection))
        M == SectionMeasures(CurrentSection)
    IN  /\ chord_idx' = (measure_idx * L) \div M
        /\ chord_idx' \in 0..(L - 1)
        /\ measure_idx = 0 => chord_idx' = 0
        /\ measure_idx > 0 => chord_idx' >= chord_idx

\* the measures that end the section are held by the last chord of the list
LastChordHolds ==
    measure_idx = SectionMeasures(CurrentSection) - 1 =>
        chord_idx' = Len(SectionChords(CurrentSection)) - 1

\* C18: in a section of L >= 1 chords and M >= 1 measures the chord index of
\* measure m is floor(m x L / M): a valid index, 0 for the first measure,
\* never decreasing, and the last chord holds the measures that remain at
\* the end of the section.
C18_ChordIndex == [][ChoosesChord => (ProportionalIndex /\ LastChordHolds)]_vars

----------------------------------------------------------------------------
(* Claims about the scale index of generate_melody_note                    *)

\* the directions a contour allows
ContourDirections(ctr) ==
    IF ctr = "ascending" THEN {1}
    ELSE IF ctr = "descending" THEN {-1}
    ELSE {-1, 1}

\* the magnitudes an innovation level allows
BandMagnitudes(innov) ==
    IF innov < LowInnovation THEN 1..2
    ELSE IF innov < MediumInnovation THEN 1..3
    ELSE 1..4

\* step = direction x magnitude
StepInBand ==
    walk.step \in {dir * mag : dir \in ContourDirections(contour),
                               mag \in BandMagnitudes(innovation_level)}

\* (current index + step) mod n, then shifted by -1, 0 or 1 mod n or left alone
WrappedIndices(n) ==
    LET stepped == (walk.current_idx + walk.step) % n
    IN  {(stepped + by) % n : by \in {-1, 0, 1}}

\* C19: the step of generate_melody_note is direction x magnitude, the
\* direction given by the contour and the magnitude by the innovation band;
\* the new scale index is (current index + step) mod 7, optionally shifted
\* by -1, 0 or 1 mod 7, and so is a valid index of the 7-degree scale.
C19_StepAndWrap ==
    calls > 0 =>
        /\ StepInBand
        /\ walk.new_idx \in WrappedIndices(DegreeMod)
        /\ walk.new_idx \in 0..(DegreeMod - 1)

----------------------------------------------------------------------------
(* Claims about the shapes of the two hands                                *)

\* the events a step appended to a hand
Appended(before, after) == SubSeq(after, Len(before) + 1, Len(after))

\* what rendering one measure appends: to the left hand a bass note and then
\* a block chord or a rest, 2 beats each; to the right hand 2 to 8 notes
MeasureShapes ==
    current_measure' = current_measure + 1 =>
        LET lh == Appended(left_hand, left_hand')
            rh == Appended(right_hand, right_hand')
        IN  /\ IsPrefix(left_hand, left_hand')
            /\ IsPrefix(right_hand, right_hand')
            /\ Len(lh) = 2
            /\ lh[1].kind = "note"
            /\ lh[2].kind \in {"chord", "rest"}
            /\ \A i \in 1..2 : lh[i].dur = 2 * TicksPerBeat
            /\ Len(rh) \in 2..8
            /\ \A i \in 1..Len(rh) : rh[i].kind = "note" /\ rh[i].np = 1

\* the right hand is never the shorter hand and holds no rest; once merged,
\* every list index has given exactly one event
HandsAligned ==
    /\ Len(right_hand) >= Len(left_hand)
    /\ \A i \in 1..Len(right_hand) : right_hand[i].kind # "rest"
    /\ pc = "normalize" =>
          /\ \A i \in MergeIndices : PitchesAt(i) >= 1 /\ Emitted(i) = i
          /\ Len(piano_part) = Len(right_hand)

\* C20: for every plan and every random outcome the left hand holds exactly
\* two events of 2 beats per rendered measure (a bass note, then a block
\* chord or a rest) and the right hand 2 to 8 pitched events per measure and
\* no rest; so the right hand is never shorter than the left, every index of
\* the merge emits exactly one event, and the merged sequence has as many
\* events as the right hand.
C20_VoiceShapes == [][MeasureShapes]_vars /\ []HandsAligned

\* measures whose right hand took 8 events each, against a left hand with a
\* rest, have been merged
C20_Witness ==
    /\ pc = "normalize"
    /\ current_measure >= 1
    /\ Len(left_hand) = 2 * current_measure
    /\ Len(right_hand) = 8 * current_measure
    /\ \E i \in 1..Len(left_hand) : left_hand[i].kind = "rest"
    /\ Len(piano_part) = Len(right_hand)

----------------------------------------------------------------------------
(* Claims about rate_limit                                                 *)

\* at most max_requests calls of one counter return True
AtMostMax == granted <= MaxRequests

\* only a call that observed count 1 sets the expiry
ExpiryByFirst == expire_set_by \subseteq {1}

\* a call that found the store unavailable or raising returned True, and its
\* request is not rejected
FailOpen ==
    \A w \in 1..Workers :
        requests[w].path \in {"unavailable", "raised"} =>
            requests[w].result = "proceeds"

\* a counter that exists is deleted in the end
CounterExpires == (rate_store.count > 0) ~> (rate_store.count = 0)

\* C21: over any interleaving of the calls of concurrent requests, at most
\* max_requests calls for the key return True between the creation of the
\* counter and its expiry, only the call that observes count 1 sets the
\* expiry, and the counter expires in the end so that the key is allowed
\* again; a call that finds the store unavailable or raising returns True
\* and its request is not rejected.
C21_RateLimit == [](AtMostMax /\ ExpiryByFirst /\ FailOpen) /\ CounterExpires

====
